---- MODULE Spec2Model ----
(***************************************************************************)
(* GEOMATCH // TERMINAL: the dashboard state container (src/app/page.tsx,   *)
(* and its earlier revision src/unnamed/part_000) and the request forwarder *)
(* (src/app/api/v1/query/route.ts), as one state machine.                   *)
(*                                                                          *)
(* A handleSubmit call is two steps: the part up to `await fetch` and the   *)
(* part after it; the forwarder's POST runs in between.  User actions may   *)
(* interleave with a pending request.                                       *)
(***************************************************************************)
EXTENDS Integers, Sequences, FiniteSets, TLC

\* ------------------------------------------------------------------ bounds

\* Longest result sequence the backend returns in the model.
MaxResults == 2
\* Cap on requests in flight (the code never exceeds one; the cap only bounds
\* a model in which the Locate button's guard is broken).
MaxInflight == 2
\* Longest top_k value a caller of the forwarder sends.
MaxTopKLen == 2
\* Longest identifier string on which formatPanoId is checked exhaustively.
MaxIdLen == 4

\* ------------------------------------------------------------ JS values

Null == [tag |-> "null"]
Undefined == [tag |-> "undefined"]

\* JavaScript truthiness of the optional values of the model.
Truthy(v) == v.tag \notin {"null", "undefined"}

RangeOf(s) == {s[i] : i \in 1..Len(s)}

SeqsUpTo(S, n) == UNION {[1..k -> S] : k \in 0..n}

\* ------------------------------------------------------------ data model

\* interface GeomatchResult: the fields the code reads (id, latitude,
\* longitude); the rank, distance, elevation and date fields are only printed.
GeomatchResult(id, lat, lng) ==
    [tag |-> "result", id |-> id, latitude |-> lat, longitude |-> lng]

\* The results the backend may return, as identifier / latitude / longitude.
BackendResults ==
    { GeomatchResult(<<"p", "_", "1">>, 10, 20),
      GeomatchResult(<<"q">>, 30, 40) }

\* interface GeomatchResponse
GeomatchResponse(results) ==
    [tag |-> "matches", count |-> Len(results), results |-> results]

\* The files the user may pick.
Files == { [tag |-> "file", name |-> n] : n \in 1..2 }

\* A string: its fixed text and the number interpolated into it (0: none).
Str(text, arg) == [tag |-> "string", text |-> text, arg |-> arg]

\* A thrown exception, as the value of the expression that throws.
Throw(message) == [tag |-> "throw", message |-> message]

Threw(v) == v.tag = "throw"

\* --------------------------------------------------------- formatPanoId

Digits == {"0", "1", "2", "3", "4", "5", "6", "7", "8", "9"}

\* The pattern without its end anchor: /_[0-9]/.
PanoSuffixMatchesAt_unanchored(rawId, i) ==
    /\ i + 1 <= Len(rawId)
    /\ rawId[i] = "_"
    /\ rawId[i + 1] \in Digits

\* The regular expression /_[0-9]$/ matched at position i of rawId.
PanoSuffixMatchesAt(rawId, i) ==
    /\ i + 1 = Len(rawId)
    /\ rawId[i] = "_"
    /\ rawId[i + 1] \in Digits

\* String.prototype.replace with a non-global pattern: the leftmost match is
\* replaced by "", and a string without a match is returned as it is.
formatPanoId(rawId) ==
    LET hits == {i \in 1..Len(rawId) : PanoSuffixMatchesAt(rawId, i)}
    IN  IF hits = {} THEN rawId
        ELSE LET i == CHOOSE j \in hits : \A k \in hits : j <= k
             IN  SubSeq(rawId, 1, i - 1) \o SubSeq(rawId, i + 2, Len(rawId))

\* ------------------------------------------------------------------ JSON

\* The text of an HTTP body.  A well-formed JSON text denotes a value; the
\* same value has a canonical text (what JSON.stringify writes) and others
\* (other spacing, other key order).
JsonText(val, canonical) ==
    [tag |-> "text", wellFormed |-> TRUE, val |-> val, canonical |-> canonical]

NotJson == [tag |-> "text", wellFormed |-> FALSE, val |-> Null, canonical |-> FALSE]

\* Response.json(): the value of a well-formed text, a SyntaxError otherwise.
JsonParse(text) ==
    IF text.wellFormed THEN text.val ELSE Throw(Str("Unexpected token", 0))

JsonStringify(val) == JsonText(val, TRUE)

\* ------------------------------------------------------ request forwarder

\* Response.ok
Ok(status) == status >= 200 /\ status <= 299

HttpResponse(status, body) == [tag |-> "http", status |-> status, body |-> body]

\* NextResponse.json(body, { status })
NextResponseJson(val, status) == HttpResponse(status, JsonStringify(val))

\* The status NextResponse.json(data) gives when it is passed none.
DefaultStatus == 200

ErrorObject(detail) == [tag |-> "object", detail |-> detail]

\* A query parameter as it stands in a URL: a sequence of characters, each
\* written as itself or as an escape.
Param(wire) == [tag |-> "param", wire |-> wire]

\* The characters a caller's top_k is written with in the model: two digits
\* and the escapes of "&" and "+".
WireTokens == {"3", "0", "%26", "%2B"}

\* URLSearchParams decoding of one character of a query string.
DecodeToken(t) ==
    CASE t = "%26" -> "&"
      [] t = "%2B" -> "+"
      [] t = "%20" -> " "
      [] t = "+" -> " "
      [] OTHER -> t

\* searchParams.get('top_k'): null without the parameter, else its decoded value.
SearchParamsGet(param) ==
    IF ~Truthy(param) THEN <<>>
    ELSE [i \in 1..Len(param.wire) |-> DecodeToken(param.wire[i])]

\* searchParams.get('top_k') || '30'
DefaultTopK == <<"3", "0">>

TopKOf(request) ==
    IF SearchParamsGet(request.topK) = <<>> THEN DefaultTopK
    ELSE SearchParamsGet(request.topK)

\* `${VPS_URL}/query?top_k=${topK}` as fetch sends it: the value is put into
\* the URL as it is, and the URL parser escapes only the space.
BackendQuery(request) ==
    [i \in 1..Len(TopKOf(request)) |->
        IF TopKOf(request)[i] = " " THEN "%20" ELSE TopKOf(request)[i]]

\* The top_k the backend reads from that query string: the text up to the
\* first "&", decoded.
BackendTopK(query) ==
    LET seps == {i \in 1..Len(query) : query[i] = "&"}
        end == IF seps = {} THEN Len(query)
               ELSE (CHOOSE i \in seps : \A j \in seps : i <= j) - 1
    IN  [i \in 1..end |-> DecodeToken(query[i])]

\* The statuses the backend answers with in the model.
BackendStatuses == {200, 201, 404, 500}

\* The bodies the backend answers with: a GeomatchResponse as JSON text,
\* canonical or not, or a text that is no JSON.
BackendBodies ==
    {JsonText(GeomatchResponse(rs), c) :
        rs \in SeqsUpTo(BackendResults, MaxResults), c \in BOOLEAN}
    \cup {NotJson}

\* What happens around one call of POST: whether request.formData() throws,
\* whether fetch to the backend throws, and otherwise the backend's status,
\* its body, and whether reading that body throws.
Behaviour(step, status, body) == [step |-> step, status |-> status, body |-> body]

Behaviours ==
    {Behaviour("formDataThrows", 0, NotJson), Behaviour("fetchThrows", 0, NotJson)}
    \cup {Behaviour(st, s, b) :
            st \in {"answers", "bodyReadThrows"}, s \in BackendStatuses,
            b \in BackendBodies}

\* The error response with the status left to NextResponse.json's default.
BackendErrorResponse_defaultStatus(status) ==
    NextResponseJson(ErrorObject(Str("Target Server Error: ", status)), DefaultStatus)

\* NextResponse.json({detail: `Target Server Error: ${status}`}, {status})
BackendErrorResponse(status) ==
    NextResponseJson(ErrorObject(Str("Target Server Error: ", status)), status)

\* The try block of POST, steps 1 to 6; an exception is its value Throw.
PostTry(request, env) ==
    IF env.step = "formDataThrows" THEN Throw(Str("formData", 0))
    ELSE IF env.step = "fetchThrows" THEN Throw(Str("fetch failed", 0))
    ELSE IF ~Ok(env.status)
    THEN IF env.step = "bodyReadThrows" THEN Throw(Str("terminated", 0))
         ELSE BackendErrorResponse(env.status)
    ELSE LET data == IF env.step = "bodyReadThrows" THEN Throw(Str("terminated", 0))
                     ELSE JsonParse(env.body)
         IN  IF Threw(data) THEN data
             ELSE NextResponseJson(data, DefaultStatus)

\* The catch block of POST.
PostCatch(error) ==
    NextResponseJson(ErrorObject(Str("Internal Server Proxy Error", 0)), 500)

\* POST without its try/catch: an exception leaves the handler.
POST_uncaught(request, env) == PostTry(request, env)

\* export async function POST(request)
POST(request, env) ==
    LET r == PostTry(request, env)
    IN  IF Threw(r) THEN PostCatch(r) ELSE r

\* ------------------------------------------------------------- dashboard

VARIABLES
    variant,         \* which revision of the dashboard runs: "page" or "part_000"
    env,             \* process.env: which third-party keys are configured
    selectedImage,   \* useState<File | null>
    previewUrl,      \* useState<string | null>
    isLoading,       \* useState(false)
    apiResponse,     \* useState<GeomatchResponse | null>
    selectedResult,  \* useState<GeomatchResult | null>
    errorMsg,        \* useState<string | null>
    viewMode,        \* useState<ViewMode>("streetview")
    mapRef,          \* whether mapRef.current holds the map instance
    mapCenter,       \* the centre of the mounted map's view, Null when none
    inflight,        \* the fetch calls: each request, its stage and its response
    lastEvent        \* history: the dashboard handler (or harness call) that ran last

vars ==
    <<variant, env, selectedImage, previewUrl, isLoading, apiResponse,
      selectedResult, errorMsg, viewMode, mapRef, mapCenter, inflight, lastEvent>>

Variants == {"page", "part_000"}

\* The four pieces of state the handlers of a query write.
Dash ==
    [tag |-> "state", isLoading |-> isLoading, apiResponse |-> apiResponse,
     selectedResult |-> selectedResult, errorMsg |-> errorMsg]

SetDash(d) ==
    /\ isLoading' = d.isLoading
    /\ apiResponse' = d.apiResponse
    /\ selectedResult' = d.selectedResult
    /\ errorMsg' = d.errorMsg

LngLat(lng, lat) == [tag |-> "lnglat", lng |-> lng, lat |-> lat]

\* initialViewState of <Map>: selectedResult?.longitude || 0, ...latitude || 0
InitialViewState(sel) ==
    IF Truthy(sel) THEN LngLat(sel.longitude, sel.latitude) ELSE LngLat(0, 0)

\* The body of the useEffect: mapRef.current.flyTo({center: [lng, lat], ...})
\* when the map is shown, a result is selected and the ref holds the map.
FlyTo(mode, sel, ref, center) ==
    IF mode = "map" /\ Truthy(sel) /\ ref
    THEN LngLat(sel.longitude, sel.latitude)
    ELSE center

\* useEffect(..., [selectedResult, viewMode]) after the render that follows a
\* state update: it runs when a dependency changed.
AfterRender ==
    mapCenter' =
        IF selectedResult' # selectedResult \/ viewMode' # viewMode
        THEN FlyTo(viewMode', selectedResult', mapRef', mapCenter)
        ELSE mapCenter

\* handleImageChange without setErrorMsg(null).
ImageChange_keepsError(d) ==
    [d EXCEPT !.apiResponse = Null, !.selectedResult = Null]

\* setApiResponse(null); setSelectedResult(null); setErrorMsg(null)
ImageChange(d) ==
    [d EXCEPT !.apiResponse = Null, !.selectedResult = Null, !.errorMsg = Null]

\* const handleImageChange = useCallback((e) => ...)
handleImageChange(file) ==
    /\ IF Truthy(file)
       THEN /\ selectedImage' = file
            /\ previewUrl' = Str("blob:", file.name)
            /\ SetDash(ImageChange(Dash))
       ELSE UNCHANGED <<selectedImage, previewUrl, isLoading, apiResponse,
                        selectedResult, errorMsg>>
    /\ UNCHANGED <<variant, env, viewMode, mapRef, inflight>>
    /\ AfterRender
    /\ lastEvent' = [op |-> "handleImageChange", file |-> file, before |-> Dash]

\* The button disabled only while no file is chosen.
SubmitDisabled_ignoresLoading == ~Truthy(selectedImage)

\* disabled={isLoading || !selectedImage} of the Locate / Execute button
SubmitDisabled == isLoading \/ ~Truthy(selectedImage)

\* handleSubmit with a setSelectedResult(null) added.
SubmitStart_clearsSelection(d) ==
    [d EXCEPT !.isLoading = TRUE, !.errorMsg = Null, !.selectedResult = Null]

\* handleSubmit without its setErrorMsg(null).
SubmitStart_keepsError(d) == [d EXCEPT !.isLoading = TRUE]

\* setIsLoading(true); setErrorMsg(null)
SubmitStart(d) == [d EXCEPT !.isLoading = TRUE, !.errorMsg = Null]

\* fetch(`/api/v1/query?top_k=30`, {method: "POST", body: formData})
Request(file, topK) ==
    [tag |-> "request", image |-> file, topK |-> topK, stage |-> "sent",
     resp |-> Null, apiAtSubmit |-> apiResponse]

\* A click on the Locate button without the file checks: the button disabled
\* only while loading, and handleSubmit without its early return.
SubmitOutcome_noFileCheck(d, image, disabled) ==
    IF d.isLoading
    THEN [tag |-> "outcome", issued |-> FALSE, dash |-> d]
    ELSE [tag |-> "outcome", issued |-> TRUE, dash |-> SubmitStart(d)]

\* A click on the Locate / Execute button: a disabled button takes no click;
\* otherwise handleSubmit runs, returns at once without a file
\* (if (!selectedImage) return), and else goes on to the fetch.
SubmitOutcome(d, image, disabled) ==
    IF disabled
    THEN [tag |-> "outcome", issued |-> FALSE, dash |-> d]
    ELSE IF ~Truthy(image)
    THEN [tag |-> "outcome", issued |-> FALSE, dash |-> d]
    ELSE [tag |-> "outcome", issued |-> TRUE, dash |-> SubmitStart(d)]

\* handleSubmit up to `await fetch(...)`, on a click on the button.
handleSubmit ==
    /\ Len(inflight) < MaxInflight
    /\ LET o == SubmitOutcome(Dash, selectedImage, SubmitDisabled)
       IN  /\ SetDash(o.dash)
           /\ inflight' = IF o.issued
                          THEN Append(inflight, Request(selectedImage, Param(<<"3", "0">>)))
                          ELSE inflight
           /\ lastEvent' = [op |-> IF o.issued THEN "handleSubmit" ELSE "handleSubmitNoop",
                            before |-> Dash]
    /\ UNCHANGED <<variant, env, selectedImage, previewUrl, viewMode, mapRef>>
    /\ AfterRender

\* The forwarder serves the request of fetch call i.
Forward(i, behaviour) ==
    /\ inflight[i].stage = "sent"
    /\ inflight' = [inflight EXCEPT ![i].stage = "answered",
                                    ![i].resp = POST(inflight[i], behaviour)]
    /\ UNCHANGED <<variant, env, selectedImage, previewUrl, isLoading, apiResponse,
                   selectedResult, errorMsg, viewMode, mapRef, mapCenter, lastEvent>>

\* fetch call i rejects: the request never reaches the forwarder.
FetchRejects(i) ==
    /\ inflight[i].stage = "sent"
    /\ inflight' = [inflight EXCEPT ![i].stage = "answered",
                                    ![i].resp = Throw(Str("Failed to fetch", 0))]
    /\ UNCHANGED <<variant, env, selectedImage, previewUrl, isLoading, apiResponse,
                   selectedResult, errorMsg, viewMode, mapRef, mapCenter, lastEvent>>

\* The last result instead of the first.
DefaultSelection_last(v, results, current) ==
    IF Len(results) > 0 THEN results[Len(results)]
    ELSE IF v = "page" THEN Undefined ELSE current

\* data.results[0] (page.tsx); part_000 keeps the selection when there is none.
DefaultSelection(v, results, current) ==
    IF Len(results) > 0 THEN results[1]
    ELSE IF v = "page" THEN Undefined ELSE current

\* errData.detail || `Error: ${response.status}`
ErrorMessage(errData, status) ==
    IF "detail" \in DOMAIN errData THEN errData.detail ELSE Str("Error: ", status)

\* The try block with the new results appended to the stored ones instead of
\* replacing them.
SubmitTry_appends(v, d, resp) ==
    IF Threw(resp) THEN resp
    ELSE IF ~Ok(resp.status)
    THEN LET errData == JsonParse(resp.body)
         IN  IF Threw(errData) THEN errData
             ELSE Throw(ErrorMessage(errData, resp.status))
    ELSE LET data == JsonParse(resp.body)
             kept == IF Truthy(d.apiResponse) THEN d.apiResponse.results ELSE <<>>
         IN  IF Threw(data) THEN data
             ELSE [d EXCEPT !.apiResponse = GeomatchResponse(kept \o data.results),
                            !.selectedResult =
                                DefaultSelection(v, data.results, d.selectedResult)]

\* The try block of handleSubmit after fetch settled with resp.
SubmitTry(v, d, resp) ==
    IF Threw(resp) THEN resp
    ELSE IF ~Ok(resp.status)
    THEN LET errData == JsonParse(resp.body)
         IN  IF Threw(errData) THEN errData
             ELSE Throw(ErrorMessage(errData, resp.status))
    ELSE LET data == JsonParse(resp.body)
         IN  IF Threw(data) THEN data
             ELSE [d EXCEPT !.apiResponse = data,
                            !.selectedResult =
                                DefaultSelection(v, data.results, d.selectedResult)]

\* The catch block with a setApiResponse(null) added.
SubmitCatch_clearsResults(d, error) ==
    [d EXCEPT !.errorMsg = error.message, !.apiResponse = Null]

\* setErrorMsg(error instanceof Error ? error.message : "Connection failed")
SubmitCatch(d, error) == [d EXCEPT !.errorMsg = error.message]

\* setIsLoading(false)
SubmitFinally(d) == [d EXCEPT !.isLoading = FALSE]

\* handleSubmit with setIsLoading(false) at the end of the try block instead
\* of in a finally block.
SubmitResume_noFinally(v, d, resp) ==
    LET t == SubmitTry(v, d, resp)
    IN  IF Threw(t) THEN SubmitCatch(d, t) ELSE SubmitFinally(t)

\* try { ... } catch (error) { ... } finally { ... }
SubmitResume(v, d, resp) ==
    LET t == SubmitTry(v, d, resp)
    IN  SubmitFinally(IF Threw(t) THEN SubmitCatch(d, t) ELSE t)

Remove(s, i) == SubSeq(s, 1, i - 1) \o SubSeq(s, i + 1, Len(s))

\* handleSubmit from `await fetch(...)` on, for fetch call i.
handleSubmitResume(i) ==
    /\ inflight[i].stage = "answered"
    /\ SetDash(SubmitResume(variant, Dash, inflight[i].resp))
    /\ inflight' = Remove(inflight, i)
    /\ UNCHANGED <<variant, env, selectedImage, previewUrl, viewMode, mapRef>>
    /\ AfterRender
    /\ lastEvent' = [op |-> "handleSubmitResume", call |-> inflight[i], before |-> Dash]

\* onClick={() => setSelectedResult(result)} of a result button or a marker
selectResult(result) ==
    /\ Truthy(apiResponse)
    /\ result \in RangeOf(apiResponse.results)
    /\ selectedResult' = result
    /\ UNCHANGED <<variant, env, selectedImage, previewUrl, isLoading, apiResponse,
                   errorMsg, viewMode, mapRef, inflight>>
    /\ AfterRender
    /\ lastEvent' = [op |-> "selectResult", result |-> result, before |-> Dash]

\* onClick={() => setViewMode(mode)}: <Map> is mounted while the mode is "map",
\* with the view initialViewState gives it, and its ref is empty at first.
setViewMode(mode) ==
    /\ variant = "page"
    /\ viewMode' = mode
    /\ mapRef' = IF mode = viewMode THEN mapRef ELSE FALSE
    /\ UNCHANGED <<variant, env, selectedImage, previewUrl, isLoading, apiResponse,
                   selectedResult, errorMsg, inflight>>
    /\ mapCenter' =
          IF mode = viewMode THEN mapCenter
          ELSE IF mode = "map"
               THEN FlyTo(mode, selectedResult, mapRef', InitialViewState(selectedResult))
               ELSE Null
    /\ lastEvent' = [op |-> "setViewMode", mode |-> mode]

\* The map library finishes creating the map and fills ref={mapRef}.
MapLoad ==
    /\ viewMode = "map"
    /\ ~mapRef
    /\ mapRef' = TRUE
    /\ UNCHANGED <<variant, env, selectedImage, previewUrl, isLoading, apiResponse,
                   selectedResult, errorMsg, viewMode, mapCenter, inflight, lastEvent>>

\* process.env.NEXT_PUBLIC_GOOGLE_MAPS_KEY and NEXT_PUBLIC_MAPBOX_TOKEN: the
\* deployments modelled configure both.
Envs == {[googleMapsKey |-> TRUE, mapboxToken |-> TRUE]}

Init ==
    /\ variant \in Variants
    /\ env \in Envs
    /\ selectedImage = Null
    /\ previewUrl = Null
    /\ isLoading = FALSE
    /\ apiResponse = Null
    /\ selectedResult = Null
    /\ errorMsg = Null
    /\ viewMode = "streetview"
    /\ mapRef = FALSE
    /\ mapCenter = Null
    /\ inflight = <<>>
    /\ lastEvent = [op |-> "init"]

Next ==
    \/ \E file \in Files \cup {Undefined} : handleImageChange(file)
    \/ handleSubmit
    \/ \E i \in 1..Len(inflight), b \in Behaviours : Forward(i, b)
    \/ \E i \in 1..Len(inflight) : FetchRejects(i)
    \/ \E i \in 1..Len(inflight) : handleSubmitResume(i)
    \/ \E r \in BackendResults : selectResult(r)
    \/ \E m \in {"streetview", "map"} : setViewMode(m)
    \/ MapLoad

Spec == Init /\ [][Next]_vars

\* ---------------------------------------------------------------- views

\* What the left pane shows: the panorama iframe, the map, or a notice.
ViewPane ==
    IF viewMode = "map"
    THEN [tag |-> "map", shown |-> mapRef, center |-> mapCenter,
          mapboxAccessToken |-> env.mapboxToken]
    ELSE IF variant = "page"
    THEN IF ~Truthy(selectedResult) THEN [tag |-> "awaiting"]
         ELSE IF ~env.googleMapsKey THEN [tag |-> "error"]
         ELSE [tag |-> "iframe", pano |-> formatPanoId(selectedResult.id)]
    ELSE IF ~env.googleMapsKey THEN [tag |-> "error"]
         ELSE IF ~Truthy(selectedResult) THEN [tag |-> "awaiting"]
         ELSE [tag |-> "iframe", pano |-> formatPanoId(selectedResult.id)]

\* selectedResult?.id === result.id
IsSelected(sel, result) == Truthy(sel) /\ sel.id = result.id

\* apiResponse.results.map(...): one entry per stored result, in order, each
\* with whether it is drawn as the selected one.
Entries(api, sel) ==
    IF ~Truthy(api) THEN <<>>
    ELSE [i \in 1..Len(api.results) |->
            [result |-> api.results[i],
             selected |-> IsSelected(sel, api.results[i])]]

\* The buttons of the result list.
ResultList == Entries(apiResponse, selectedResult)

\* The markers on the map, which exists in map mode only.
Markers == IF viewMode = "map" THEN Entries(apiResponse, selectedResult) ELSE <<>>

\* ------------------------------------- the dashboard under any configuration

\* Every configuration of the two third-party keys, present or missing.
AllEnvs == [googleMapsKey : BOOLEAN, mapboxToken : BOOLEAN]

InitKeys ==
    /\ variant \in Variants
    /\ env \in AllEnvs
    /\ selectedImage = Null
    /\ previewUrl = Null
    /\ isLoading = FALSE
    /\ apiResponse = Null
    /\ selectedResult = Null
    /\ errorMsg = Null
    /\ viewMode = "streetview"
    /\ mapRef = FALSE
    /\ mapCenter = Null
    /\ inflight = <<>>
    /\ lastEvent = [op |-> "init"]

SpecKeys == InitKeys /\ [][Next]_vars

\* ------------------------------------ the dashboard when requests complete

\* The dashboard when every request eventually completes: a fetch that no
\* answer settles eventually rejects, and once a fetch has settled the
\* continuation of handleSubmit runs.
SpecLive ==
    /\ Init /\ [][Next]_vars
    /\ WF_vars(\E i \in 1..Len(inflight) : FetchRejects(i))
    /\ WF_vars(\E i \in 1..Len(inflight) : handleSubmitResume(i))

\* --------------------------------------------- harness: the forwarder alone

\* Any HTTP client calls the forwarder, one call at a time.
Call(file, topK) ==
    /\ inflight = <<>>
    /\ inflight' = <<Request(file, topK)>>
    /\ lastEvent' = [op |-> "Call"]
    /\ UNCHANGED <<variant, env, selectedImage, previewUrl, isLoading, apiResponse,
                   selectedResult, errorMsg, viewMode, mapRef, mapCenter>>

\* POST runs on the call, the backend behaving as `behaviour`.
Serve(behaviour) ==
    /\ Len(inflight) = 1
    /\ inflight[1].stage = "sent"
    /\ LET result == POST(inflight[1], behaviour)
       IN  /\ inflight' = [inflight EXCEPT ![1].stage = "answered", ![1].resp = result]
           /\ lastEvent' = [op |-> "POST", request |-> inflight[1],
                            behaviour |-> behaviour, result |-> result,
                            backendTopK |-> BackendTopK(BackendQuery(inflight[1]))]
    /\ UNCHANGED <<variant, env, selectedImage, previewUrl, isLoading, apiResponse,
                   selectedResult, errorMsg, viewMode, mapRef, mapCenter>>

\* The client takes the forwarder's response.
Deliver ==
    /\ Len(inflight) = 1
    /\ inflight[1].stage = "answered"
    /\ inflight' = <<>>
    /\ lastEvent' = [op |-> "Deliver"]
    /\ UNCHANGED <<variant, env, selectedImage, previewUrl, isLoading, apiResponse,
                   selectedResult, errorMsg, viewMode, mapRef, mapCenter>>

\* What a caller sends as top_k: nothing, or a value of up to MaxTopKLen
\* characters (the empty value included).
TopKs == {Null} \cup {Param(w) : w \in SeqsUpTo(WireTokens, MaxTopKLen)}

NextForwarder ==
    \/ \E file \in Files, topK \in TopKs : Call(file, topK)
    \/ \E b \in Behaviours : Serve(b)
    \/ Deliver

SpecForwarder == Init /\ [][NextForwarder]_vars

\* ------------------------------------------ harness: formatPanoId alone

IdChars == {"a", "_", "0", "9"}

InitFormat ==
    /\ variant = "page"
    /\ env \in Envs
    /\ selectedImage = Null
    /\ previewUrl = Null
    /\ isLoading = FALSE
    /\ apiResponse = Null
    /\ selectedResult = Null
    /\ errorMsg = Null
    /\ viewMode = "streetview"
    /\ mapRef = FALSE
    /\ mapCenter = Null
    /\ inflight = <<>>
    /\ \E rawId \in SeqsUpTo(IdChars, MaxIdLen) :
          lastEvent = [op |-> "input", rawId |-> rawId]

ApplyFormat ==
    /\ lastEvent.op = "input"
    /\ lastEvent' = [op |-> "formatPanoId", rawId |-> lastEvent.rawId,
                     out |-> formatPanoId(lastEvent.rawId)]
    /\ UNCHANGED <<variant, env, selectedImage, previewUrl, isLoading, apiResponse,
                   selectedResult, errorMsg, viewMode, mapRef, mapCenter, inflight>>

SpecFormat == InitFormat /\ [][ApplyFormat]_vars

\* ---------------------------------------------------------------- claims

\* The response a completed handleSubmit call received, when lastEvent is one.
Completed == lastEvent.op = "handleSubmitResume"

CompletedOk ==
    /\ Completed
    /\ ~Threw(lastEvent.call.resp)
    /\ Ok(lastEvent.call.resp.status)
    /\ lastEvent.call.resp.body.wellFormed

CompletedNotOk ==
    /\ Completed
    /\ ~Threw(lastEvent.call.resp)
    /\ ~Ok(lastEvent.call.resp.status)

CompletedResults == lastEvent.call.resp.body.val.results

\* C1: right after a query completes with a successful response carrying
\* N >= 1 results, the selected result is the first element of that response's
\* result sequence, whatever was selected before.
C1_FirstResultSelected ==
    (CompletedOk /\ Len(CompletedResults) >= 1)
        => selectedResult = CompletedResults[1]

\* C1 witness: such a completion replaced a selection of another result.
C1_Witness ==
    /\ CompletedOk
    /\ Len(CompletedResults) >= 2
    /\ Truthy(lastEvent.before.selectedResult)
    /\ lastEvent.before.selectedResult # CompletedResults[1]
    /\ selectedResult = CompletedResults[1]

\* C2 as stated: after a query completes with a non-success status the error
\* message is non-null and the stored result set is what it was before that
\* submit.
C2_ResultsAsBeforeSubmit ==
    CompletedNotOk =>
        /\ errorMsg # Null
        /\ apiResponse = lastEvent.call.apiAtSubmit

\* C2 amended: after a query completes with a non-success status the error
\* message is non-null and the completion left the stored result set as it
\* was just before it: the result set stored before the submit, or none (a
\* new image was chosen while the request was pending).
C2_ResultsUntouchedByCompletion ==
    CompletedNotOk =>
        /\ Truthy(errorMsg)
        /\ apiResponse = lastEvent.before.apiResponse
        /\ apiResponse \in {lastEvent.call.apiAtSubmit, Null}

\* C2 witness: a non-success completion with a result set stored.
C2_Witness ==
    /\ CompletedNotOk
    /\ Truthy(apiResponse)
    /\ Len(apiResponse.results) >= 1
    /\ ~Truthy(lastEvent.before.errorMsg)
    /\ Truthy(errorMsg)

\* C3: right after a new image file is chosen, the result set, the selected
\* result and the error message are all none, so nothing stored before the
\* choice is left for a later submit.
C3_ImageChoiceClears ==
    (lastEvent.op = "handleImageChange" /\ Truthy(lastEvent.file)) =>
        /\ apiResponse = Null
        /\ selectedResult = Null
        /\ errorMsg = Null

\* C3 witness: an image was chosen while results, a selection and an error
\* were all stored.
C3_Witness ==
    /\ lastEvent.op = "handleImageChange"
    /\ Truthy(lastEvent.file)
    /\ Truthy(lastEvent.before.apiResponse)
    /\ Truthy(lastEvent.before.selectedResult)
    /\ Truthy(lastEvent.before.errorMsg)
    /\ apiResponse = Null

\* C4 as stated: right after a submit, while the request is pending, no
\* result is selected.
C4_SelectionClearedOnSubmit ==
    lastEvent.op = "handleSubmit" => ~Truthy(selectedResult)

\* C4 amended: right after a submit, while the request is pending, the error
\* message is none and the selected result is the one selected before the
\* submit: a submit does not clear the selection.
C4_SelectionKeptOnSubmit ==
    lastEvent.op = "handleSubmit" =>
        /\ isLoading
        /\ errorMsg = Null
        /\ selectedResult = lastEvent.before.selectedResult

\* C4 witness: a submit with a result of an earlier query selected.
C4_Witness ==
    /\ lastEvent.op = "handleSubmit"
    /\ Truthy(lastEvent.before.selectedResult)
    /\ selectedResult = lastEvent.before.selectedResult
    /\ Len(inflight) = 1

\* C5: at most one query request is in flight at any time, and the submit
\* button is disabled for as long as one is.
C5_SingleRequestInFlight ==
    /\ Len(inflight) <= 1
    /\ Len(inflight) = 1 => (isLoading /\ SubmitDisabled)

\* C5 witness: a user action (an image choice or a selection) was taken
\* while a request was pending.
C5_Witness ==
    /\ Len(inflight) = 1
    /\ lastEvent.op \in {"handleImageChange", "selectResult"}
    /\ Truthy(selectedImage)
    /\ (lastEvent.op = "selectResult" \/ inflight[1].image # selectedImage)

\* The forwarder's last call: what the backend did and what POST returned.
Served == lastEvent.op = "POST"

BackendAnswered(b) == b.step \in {"answers", "bodyReadThrows"}

GenericError ==
    NextResponseJson(ErrorObject(Str("Internal Server Proxy Error", 0)), 500)

\* C6: for every backend response with a success status (and a JSON body
\* that is read without failure), the forwarder's response carries the
\* backend's status code and the same JSON value as body.
C6_SuccessRelayedUnchanged ==
    (/\ Served
     /\ lastEvent.behaviour.step = "answers"
     /\ Ok(lastEvent.behaviour.status)
     /\ lastEvent.behaviour.body.wellFormed) =>
        /\ lastEvent.result.tag = "http"
        /\ lastEvent.result.status = lastEvent.behaviour.status
        /\ JsonParse(lastEvent.result.body) = JsonParse(lastEvent.behaviour.body)

\* C7 as stated: for every backend response with a non-success status s the
\* forwarder returns an error object with a detail string and status s, and
\* not the backend's body.
C7_ErrorStatusAlwaysRelayed ==
    (/\ Served
     /\ BackendAnswered(lastEvent.behaviour)
     /\ ~Ok(lastEvent.behaviour.status)) =>
        /\ lastEvent.result.tag = "http"
        /\ lastEvent.result.status = lastEvent.behaviour.status
        /\ "detail" \in DOMAIN JsonParse(lastEvent.result.body)
        /\ lastEvent.result.body # lastEvent.behaviour.body

\* C7 amended: for every backend response with a non-success status s the
\* forwarder returns an error object with a detail string, and not the
\* backend's body; its status is s and its detail names s, unless reading
\* the backend's body throws, and then it is the generic error with status 500.
C7_ErrorStatusRelayedUnlessThrown ==
    (/\ Served
     /\ BackendAnswered(lastEvent.behaviour)
     /\ ~Ok(lastEvent.behaviour.status)) =>
        /\ lastEvent.result.tag = "http"
        /\ "detail" \in DOMAIN JsonParse(lastEvent.result.body)
        /\ lastEvent.result.body # lastEvent.behaviour.body
        /\ IF lastEvent.behaviour.step = "answers"
           THEN /\ lastEvent.result.status = lastEvent.behaviour.status
                /\ JsonParse(lastEvent.result.body).detail =
                      Str("Target Server Error: ", lastEvent.behaviour.status)
           ELSE lastEvent.result = GenericError

\* C7 witness: the backend answered 404 and the forwarder answered 404.
C7_Witness ==
    /\ Served
    /\ lastEvent.behaviour.step = "answers"
    /\ lastEvent.behaviour.status = 404
    /\ lastEvent.behaviour.body.wellFormed
    /\ lastEvent.result.tag = "http"
    /\ lastEvent.result.status = 404

\* An exception is raised inside POST: by request.formData(), by fetch, by
\* reading the backend's body, or by decoding a body that is no JSON.
PostRaises(b) ==
    \/ b.step \in {"formDataThrows", "fetchThrows", "bodyReadThrows"}
    \/ (b.step = "answers" /\ Ok(b.status) /\ ~b.body.wellFormed)

\* C8: the forwarder always returns a response, never an exception, and when
\* reading the upload, calling the backend or decoding the backend's body
\* raises one, the response is the generic error payload with status 500.
C8_ExceptionsBecome500 ==
    Served =>
        /\ lastEvent.result.tag = "http"
        /\ PostRaises(lastEvent.behaviour) => lastEvent.result = GenericError

\* C8 witness: reading the upload raised an exception and the caller got a
\* response with status 500.
C8_Witness ==
    /\ Served
    /\ lastEvent.behaviour.step = "formDataThrows"
    /\ lastEvent.result.tag = "http"
    /\ lastEvent.result.status = 500

\* C9: after the user selects a result other than the one selected before,
\* the location the view pane renders is that result's: its panorama in
\* streetview mode, the map centred on its longitude/latitude in map mode
\* (once the map is shown); it does not stay on the earlier result's.
C9_RenderedLocationIsSelected ==
    (/\ lastEvent.op = "selectResult"
     /\ Truthy(lastEvent.before.selectedResult)
     /\ lastEvent.before.selectedResult # lastEvent.result) =>
        /\ ViewPane.tag = "iframe" => ViewPane.pano = formatPanoId(lastEvent.result.id)
        /\ (ViewPane.tag = "map" /\ ViewPane.shown) =>
              ViewPane.center = LngLat(lastEvent.result.longitude,
                                       lastEvent.result.latitude)

\* C10: formatPanoId returns an identifier that ends in an underscore and one
\* digit without those two characters, and any other identifier unchanged.
C10_FormatPanoId ==
    lastEvent.op = "formatPanoId" =>
        LET s == lastEvent.rawId
            n == Len(lastEvent.rawId)
        IN  IF n >= 2 /\ s[n - 1] = "_" /\ s[n] \in Digits
            THEN lastEvent.out = SubSeq(s, 1, n - 2)
            ELSE lastEvent.out = s

\* C10 witness: a suffix was stripped from an identifier that holds another
\* underscore-digit pair before it.
C10_Witness ==
    /\ lastEvent.op = "formatPanoId"
    /\ lastEvent.rawId = <<"_", "0", "_", "9">>
    /\ lastEvent.out = <<"_", "0">>

\* C11: no query request exists for which no image file was chosen, none is
\* in flight while no file is chosen, and a submit action taken without a
\* chosen file leaves the loading flag, the error, the results and the
\* selection as they were and issues no request.
C11_SubmitRequiresFile ==
    /\ \A i \in 1..Len(inflight) : Truthy(inflight[i].image)
    /\ ~Truthy(selectedImage) => inflight = <<>>
    /\ (lastEvent.op = "handleSubmitNoop" /\ ~Truthy(selectedImage)) =>
          /\ Dash = lastEvent.before
          /\ ~isLoading
          /\ inflight = <<>>

\* C11 witness: a submit action was taken with no file chosen.
C11_Witness ==
    /\ lastEvent.op = "handleSubmitNoop"
    /\ ~Truthy(selectedImage)
    /\ Dash = lastEvent.before
    /\ inflight = <<>>

\* C12: with a third-party key missing, whenever the view that needs it is
\* shown, the pane displays an error instead of that view: no panorama iframe
\* without the panorama key and an error in its place, and an error in place
\* of the map without the map token.
C12_MissingKeyShowsError ==
    /\ ~env.googleMapsKey =>
          /\ ViewPane.tag # "iframe"
          /\ (viewMode = "streetview" /\ Truthy(selectedResult)) => ViewPane.tag = "error"
    /\ (~env.mapboxToken /\ viewMode = "map") => ViewPane.tag = "error"

\* C13: the backend receives the caller's top_k unmodified when the caller
\* supplies one (a non-empty value), and 30 when the caller supplies none.
C13_TopKPassedUnmodified ==
    (Served /\ lastEvent.behaviour.step # "formDataThrows") =>
        IF ~Truthy(lastEvent.request.topK)
        THEN lastEvent.backendTopK = <<"3", "0">>
        ELSE SearchParamsGet(lastEvent.request.topK) # <<>> =>
                lastEvent.backendTopK = SearchParamsGet(lastEvent.request.topK)

NumSelected(entries) ==
    Cardinality({i \in 1..Len(entries) : entries[i].selected})

\* C14: in every state at most one entry of the result list and at most one
\* marker of the map is drawn as selected.
C14_AtMostOneMarked ==
    /\ NumSelected(ResultList) <= 1
    /\ NumSelected(Markers) <= 1

\* C15: in every state a selected result is one of the stored results; there
\* is no selection while no result set is stored, and none left over from an
\* earlier response after a response with no results.
C15_SelectionIsStoredResult ==
    Truthy(selectedResult) =>
        /\ Truthy(apiResponse)
        /\ selectedResult \in RangeOf(apiResponse.results)

\* C16: the completion of a request that was issued for another image than the
\* one now chosen installs neither its results, nor its default selection, nor
\* its error.
C16_StaleCompletionInstallsNothing ==
    (Completed /\ lastEvent.call.image # selectedImage) =>
        /\ apiResponse = lastEvent.before.apiResponse
        /\ selectedResult = lastEvent.before.selectedResult
        /\ errorMsg = lastEvent.before.errorMsg

\* C17: the loading flag is true exactly while a request is in flight, and
\* when every request completes, loading is always followed by a state where
\* the flag is false and the button is enabled again.
C17_LoadingWhileInFlight ==
    /\ [](isLoading <=> inflight # <<>>)
    /\ (isLoading ~> (~isLoading /\ ~SubmitDisabled))

\* A request that ended in an exception has completed, and the button is
\* enabled again.
C17_Witness ==
    /\ Completed
    /\ Threw(lastEvent.call.resp)
    /\ lastEvent.before.isLoading
    /\ ~isLoading
    /\ ~SubmitDisabled
    /\ inflight = <<>>

\* C18: in every state in which a request is pending (the loading flag is set
\* or a fetch is in flight) the error message is none.
C18_NoErrorWhileLoading ==
    (isLoading \/ inflight # <<>>) => errorMsg = Null

\* C18 witness: a submit made while an error was shown; the request is pending
\* and the error is gone.
C18_Witness ==
    /\ lastEvent.op = "handleSubmit"
    /\ Truthy(lastEvent.before.errorMsg)
    /\ isLoading
    /\ inflight # <<>>
    /\ errorMsg = Null

\* C19: after a successful completion the stored result set is the result
\* sequence of that response, in the backend's order and with nothing else,
\* and the result list shows exactly these entries in that order.
C19_StoredResultsAreLatest ==
    CompletedOk =>
        /\ Truthy(apiResponse)
        /\ apiResponse.results = CompletedResults
        /\ Len(ResultList) = Len(CompletedResults)
        /\ \A i \in 1..Len(ResultList) : ResultList[i].result = CompletedResults[i]

\* C19 witness: a successful completion with two different results replaced
\* another stored result set.
C19_Witness ==
    /\ CompletedOk
    /\ Truthy(lastEvent.before.apiResponse)
    /\ Len(lastEvent.before.apiResponse.results) >= 1
    /\ lastEvent.before.apiResponse.results # CompletedResults
    /\ Len(CompletedResults) = 2
    /\ CompletedResults[1] # CompletedResults[2]
    /\ apiResponse.results = CompletedResults

====
